---- MODULE Spec2Model ----
(***************************************************************************)
(* Inventory allocation domain model (src/src/model.py): OrderLine value   *)
(* objects, Batch entities with their set of allocations, and the domain   *)
(* service allocate(line, batches).                                        *)
(***************************************************************************)
EXTENDS Integers, Sequences, FiniteSets, TLC

\* ---------------------------------------------------------------- bounds
\* largest purchased quantity of a batch (0..MaxPurchased)
MaxPurchased == 3

\* eta of a batch that is already in the warehouse (Optional[date] = None)
None == 0

Refs == {"b1", "b2"}
Skus == {"X", "Y"}
OrderIds == {"o1"}
\* arrival dates of batches in transit, as day numbers
Dates == {1, 2}
Etas == {None} \cup Dates
\* quantities of order lines: positive integers
Qtys == {1, 2}

\* @dataclass(frozen=True) class OrderLine: a value, equal by all its fields
OrderLine == [orderid : OrderIds, sku : Skus, qty : Qtys]

\* Batch.__init__: a freshly constructed batch has no allocations
Batch(ref, sku, qty, eta) ==
    [reference |-> ref, sku |-> sku, eta |-> eta,
     purchased_quantity |-> qty, allocations |-> {}]

VARIABLES
    batches,   \* the Batch objects of the caller, by reference
    last,      \* the last call: operation, arguments, batches before it, outcome
    prev       \* the call before last, kept when last follows it up on the
               \* same line and the same batch (or a list holding it)

vars == <<batches, last, prev>>

\* ------------------------------------------------------- pure functions
RECURSIVE SumQty(_)
SumQty(lines) ==
    IF lines = {} THEN 0
    ELSE LET l == CHOOSE x \in lines : TRUE
         IN  l.qty + SumQty(lines \ {l})

\* variant: counts the allocated lines instead of summing their qty
allocated_quantity_count(b) == Cardinality(b.allocations)

allocated_quantity(b) == SumQty(b.allocations)

available_quantity(b) == b.purchased_quantity - allocated_quantity(b)

\* variant: also refuses a line the batch already holds
can_allocate_fresh(b, line) ==
    /\ b.sku = line.sku
    /\ available_quantity(b) >= line.qty
    /\ line \notin b.allocations

\* variant: asks for more than the line's qty to be available
can_allocate_strict(b, line) ==
    b.sku = line.sku /\ available_quantity(b) > line.qty

can_allocate(b, line) ==
    b.sku = line.sku /\ available_quantity(b) >= line.qty

\* variant: adds the line without asking can_allocate
Batch_allocate_unchecked(b, line) ==
    [b EXCEPT !.allocations = @ \cup {line}]

\* variant: the guard is inverted
Batch_allocate_inverted(b, line) ==
    IF ~ can_allocate(b, line)
    THEN [b EXCEPT !.allocations = @ \cup {line}]
    ELSE b

\* Batch.allocate: the batch after the call
Batch_allocate(b, line) ==
    IF can_allocate(b, line)
    THEN [b EXCEPT !.allocations = @ \cup {line}]
    ELSE b

\* variant: empties the allocations instead of removing one line
Batch_deallocate_clear(b, line) ==
    IF line \in b.allocations
    THEN [b EXCEPT !.allocations = {}]
    ELSE b

\* variant: the guard is inverted, so a held line is never removed
Batch_deallocate_inverted(b, line) ==
    IF line \notin b.allocations
    THEN [b EXCEPT !.allocations = @ \ {line}]
    ELSE b

\* Batch.deallocate: the batch after the call
Batch_deallocate(b, line) ==
    IF line \in b.allocations
    THEN [b EXCEPT !.allocations = @ \ {line}]
    ELSE b

\* set.remove(x): the exception it raises, "" for none
set_remove_raised(set, x) == IF x \in set THEN "" ELSE "KeyError"

\* variant: removes the line without looking whether the batch holds it
Batch_deallocate_raised_unguarded(b, line) ==
    set_remove_raised(b.allocations, line)

\* Batch.deallocate: the exception the call raises, "" for none
Batch_deallocate_raised(b, line) ==
    IF line \in b.allocations
    THEN set_remove_raised(b.allocations, line)
    ELSE ""

\* Batch.__gt__
Batch_gt(self, other) ==
    IF self.eta = None THEN FALSE
    ELSE IF other.eta = None THEN TRUE
    ELSE self.eta > other.eta

\* variant: the comparison is not reflected, so the sort is descending
Batch_lt_unreflected(a, b) == Batch_gt(a, b)

\* a < b on two Batch objects: Batch defines no __lt__, so Python evaluates
\* the reflected b.__gt__(a)
Batch_lt(a, b) == Batch_gt(b, a)

\* variant: x goes before the first element that is not less than x, so
\* equal elements end up in reverse input order
RECURSIVE Insert_unstable(_, _, _)
Insert_unstable(bs, s, x) ==
    IF s = <<>> THEN <<x>>
    ELSE IF ~ Batch_lt(bs[Head(s)], bs[x]) THEN <<x>> \o s
    ELSE <<Head(s)>> \o Insert_unstable(bs, Tail(s), x)

\* sorted(): stable; x goes before the first element it is less than
RECURSIVE Insert(_, _, _)
Insert(bs, s, x) ==
    IF s = <<>> THEN <<x>>
    ELSE IF Batch_lt(bs[x], bs[Head(s)]) THEN <<x>> \o s
    ELSE <<Head(s)>> \o Insert(bs, Tail(s), x)

RECURSIVE sorted(_, _)
sorted(bs, refs) ==
    IF refs = <<>> THEN <<>>
    ELSE Insert(bs, sorted(bs, SubSeq(refs, 1, Len(refs) - 1)), refs[Len(refs)])

\* variant: the scan stops one element early
RECURSIVE FirstCanShort(_, _, _, _)
FirstCanShort(bs, s, line, i) ==
    IF i >= Len(s) THEN 0
    ELSE IF can_allocate(bs[s[i]], line) THEN i
    ELSE FirstCanShort(bs, s, line, i + 1)

\* next(b for b in ... if b.can_allocate(line)): 0 stands for StopIteration
RECURSIVE FirstCan(_, _, _, _)
FirstCan(bs, s, line, i) ==
    IF i > Len(s) THEN 0
    ELSE IF can_allocate(bs[s[i]], line) THEN i
    ELSE FirstCan(bs, s, line, i + 1)

\* the text of the exception raised at model.py:43, as the pieces of the
\* f-string: it has one literal piece and no replacement field
OutOfStockMessage(line) == <<"Out of stock for sku">>

\* variant: allocates the line on every batch of the list that can take it
allocate_every(bs, line, list) ==
    LET s == sorted(bs, list)
        i == FirstCan(bs, s, line, 1)
        hit == {list[k] : k \in DOMAIN list}
    IN  IF i # 0
        THEN [batches |-> [r \in Refs |->
                              IF r \in hit THEN Batch_allocate(bs[r], line)
                              ELSE bs[r]],
              ret |-> bs[s[i]].reference,
              raised |-> "", message |-> <<>>]
        ELSE [batches |-> bs, ret |-> "",
              raised |-> "OutOfStock", message |-> OutOfStockMessage(line)]

\* variant: picks the first batch of the right sku, adds the line, and only
\* then finds out that the batch is over-allocated
allocate_then_check(bs, line, list) ==
    LET s == sorted(bs, list)
        m == {k \in DOMAIN s : bs[s[k]].sku = line.sku}
        i == IF m = {} THEN 0 ELSE CHOOSE k \in m : \A j \in m : k <= j
        after == IF i = 0 THEN bs
                 ELSE [bs EXCEPT ![s[i]] = Batch_allocate_unchecked(@, line)]
    IN  IF i # 0 /\ available_quantity(after[s[i]]) >= 0
        THEN [batches |-> after, ret |-> bs[s[i]].reference,
              raised |-> "", message |-> <<>>]
        ELSE [batches |-> after, ret |-> "",
              raised |-> "OutOfStock", message |-> OutOfStockMessage(line)]

\* variant: returns the reference of the first batch of the list as given
allocate_returns_first(bs, line, list) ==
    LET s == sorted(bs, list)
        i == FirstCan(bs, s, line, 1)
    IN  IF i # 0
        THEN [batches |-> [bs EXCEPT ![s[i]] = Batch_allocate(@, line)],
              ret |-> bs[list[1]].reference,
              raised |-> "", message |-> <<>>]
        ELSE [batches |-> bs, ret |-> "",
              raised |-> "OutOfStock", message |-> OutOfStockMessage(line)]

\* the domain service allocate(line, batches): the batches after the call,
\* the value returned and the exception raised
allocate(bs, line, list) ==
    LET s == sorted(bs, list)
        i == FirstCan(bs, s, line, 1)
    IN  IF i # 0
        THEN [batches |-> [bs EXCEPT ![s[i]] = Batch_allocate(@, line)],
              ret |-> bs[s[i]].reference,
              raised |-> "", message |-> <<>>]
        ELSE [batches |-> bs, ret |-> "",
              raised |-> "OutOfStock", message |-> OutOfStockMessage(line)]

\* lists of batches with distinct references
BatchLists ==
    {s \in UNION {[1..n -> Refs] : n \in 0..Cardinality(Refs)} :
        \A i, j \in DOMAIN s : i # j => s[i] # s[j]}

NoLine == [orderid |-> "", sku |-> "", qty |-> 0]
NoCall ==
    [op |-> "none", line |-> NoLine, batch |-> "", list |-> <<>>,
     pre |-> <<>>, ret |-> "", raised |-> "", message |-> <<>>]

\* ---------------------------------------------------------------- Init
\* the batches a caller constructs: any sku, purchased quantity and eta for
\* each; up to renaming the skus, the first batch stocks X
Setups ==
    {f \in [Refs -> Skus \X (0..MaxPurchased) \X Etas] : f["b1"][1] = "X"}

Init ==
    /\ batches \in
         {[r \in Refs |-> Batch(r, f[r][1], f[r][2], f[r][3])] : f \in Setups}
    /\ last = NoCall
    /\ prev = NoCall

\* -------------------------------------------------------------- actions
\* Batch.can_allocate(line) called on batch r
DoCanAllocate ==
    \E r \in Refs, line \in OrderLine :
        /\ batches' = batches
        /\ last' = [NoCall EXCEPT !.op = "Batch.can_allocate", !.line = line,
                       !.batch = r, !.pre = batches,
                       !.ret = IF can_allocate(batches[r], line)
                               THEN "True" ELSE "False"]
        /\ prev' = NoCall

\* Batch.allocate(line) called on batch r
DoBatchAllocate ==
    \E r \in Refs, line \in OrderLine :
        /\ batches' = [batches EXCEPT ![r] = Batch_allocate(@, line)]
        /\ last' = [NoCall EXCEPT !.op = "Batch.allocate", !.line = line,
                       !.batch = r, !.pre = batches]
        /\ prev' = IF /\ last.op = "Batch.allocate"
                      /\ last.line = line /\ last.batch = r
                   THEN last ELSE NoCall

\* Batch.deallocate(line) called on batch r
DoBatchDeallocate ==
    \E r \in Refs, line \in OrderLine :
        /\ batches' = [batches EXCEPT ![r] = Batch_deallocate(@, line)]
        /\ last' = [NoCall EXCEPT !.op = "Batch.deallocate", !.line = line,
                       !.batch = r, !.pre = batches,
                       !.raised = Batch_deallocate_raised(batches[r], line)]
        /\ prev' = IF /\ last.op = "Batch.allocate"
                      /\ last.line = line /\ last.batch = r
                   THEN last ELSE NoCall

\* the domain service allocate(line, list)
DoAllocate ==
    \E line \in OrderLine, list \in BatchLists :
        \E out \in {allocate(batches, line, list)} :
            /\ batches' = out.batches
            /\ last' = [NoCall EXCEPT !.op = "allocate", !.line = line,
                           !.list = list, !.pre = batches, !.ret = out.ret,
                           !.raised = out.raised, !.message = out.message]
            /\ prev' = IF \/ /\ last.op = "allocate"
                             /\ last.line = line /\ last.list = list
                          \/ /\ last.op = "Batch.deallocate"
                             /\ last.line = line
                             /\ \E k \in DOMAIN list : list[k] = last.batch
                       THEN last ELSE NoCall

Next == DoCanAllocate \/ DoBatchAllocate \/ DoBatchDeallocate \/ DoAllocate

Spec == Init /\ [][Next]_vars

\* ------------------------------------------------------------- claims
\* the batches of a list, the batches holding a line, and the available
\* quantity summed over a set of batches
InList(list) == {list[k] : k \in DOMAIN list}

Holders(bs, line) == {r \in Refs : line \in bs[r].allocations}

RECURSIVE TotalAvailable(_, _)
TotalAvailable(bs, rs) ==
    IF rs = {} THEN 0
    ELSE LET r == CHOOSE x \in rs : TRUE
         IN  available_quantity(bs[r]) + TotalAvailable(bs, rs \ {r})

\* a ranks strictly before b: no eta before any eta, then the earlier eta
RanksBefore(a, b) ==
    \/ a.eta = None /\ b.eta # None
    \/ a.eta # None /\ b.eta # None /\ a.eta < b.eta

ServiceOk == last.op = "allocate" /\ last.raised = ""
ServiceFailed == last.op = "allocate" /\ last.raised = "OutOfStock"

\* C1: when some batch of the list can allocate the line, the service
\* returns the reference of a batch that could allocate it before the call,
\* and no other batch that could allocate it ranks strictly before that one.
C1_BestBatchReturned ==
    (/\ last.op = "allocate"
     /\ \E r \in InList(last.list) : can_allocate(last.pre[r], last.line))
    => /\ last.ret \in InList(last.list)
       /\ can_allocate(last.pre[last.ret], last.line)
       /\ \A r \in InList(last.list) \ {last.ret} :
            can_allocate(last.pre[r], last.line)
            => ~ RanksBefore(last.pre[r], last.pre[last.ret])

\* C1 witness: two batches could take the line, the one listed second ranks
\* strictly before the one listed first, and it is the one returned.
C1_Witness ==
    /\ ServiceOk
    /\ Len(last.list) = 2
    /\ last.ret = last.list[2]
    /\ can_allocate(last.pre[last.list[1]], last.line)
    /\ RanksBefore(last.pre[last.list[2]], last.pre[last.list[1]])

\* C2: the service raises OutOfStock exactly when no batch of the list can
\* allocate the line at the time of the call; otherwise it returns a
\* reference of the list and raises nothing.
C2_OutOfStockIffNoneCan ==
    last.op = "allocate"
    => LET none == \A r \in InList(last.list) :
                       ~ can_allocate(last.pre[r], last.line)
       IN  /\ last.raised = "OutOfStock" <=> none
           /\ last.raised \in {"", "OutOfStock"}
           /\ ~ none => last.raised = "" /\ last.ret \in InList(last.list)
           /\ none => last.ret = ""

\* C2 witness: OutOfStock on a list of two batches, one of another sku and
\* one of the right sku that is short of the quantity asked.
C2_Witness ==
    /\ ServiceFailed
    /\ Len(last.list) = 2
    /\ \E r \in InList(last.list) : last.pre[r].sku # last.line.sku
    /\ \E r \in InList(last.list) :
          /\ last.pre[r].sku = last.line.sku
          /\ available_quantity(last.pre[r]) < last.line.qty
          /\ available_quantity(last.pre[r]) > 0

\* C3: no batch is ever over-allocated: its available quantity stays
\* between 0 and its purchased quantity.
C3_NeverOverAllocated ==
    \A r \in Refs :
        /\ 0 <= available_quantity(batches[r])
        /\ available_quantity(batches[r]) <= batches[r].purchased_quantity

\* C3 witness: Batch.allocate was called with a line of the right sku that
\* the batch does not hold and has no room for, and the batch is unchanged.
C3_Witness ==
    /\ last.op = "Batch.allocate"
    /\ last.pre[last.batch].sku = last.line.sku
    /\ last.line \notin last.pre[last.batch].allocations
    /\ last.pre[last.batch].allocations # {}
    /\ available_quantity(last.pre[last.batch]) < last.line.qty
    /\ batches = last.pre

\* the precondition of C4 at a call of Batch.allocate
C4_Pre(call) ==
    /\ call.op = "Batch.allocate"
    /\ call.pre[call.batch].sku = call.line.sku
    /\ available_quantity(call.pre[call.batch]) >= call.line.qty

\* C4 as stated: whenever the sku matches and the available quantity is at
\* least the line's qty, Batch.allocate lowers the available quantity by
\* exactly the line's qty.
C4_Original ==
    C4_Pre(last)
    => available_quantity(batches[last.batch])
         = available_quantity(last.pre[last.batch]) - last.line.qty

\* C4 amended: under that precondition can_allocate is true and the batch
\* holds the line after Batch.allocate; if the batch did not hold the line
\* before, its available quantity drops by exactly the line's qty; and a
\* second Batch.allocate with the same line leaves the available quantity as
\* the first one left it.
C4_AllocateCountsOnce ==
    /\ C4_Pre(last)
       => /\ can_allocate(last.pre[last.batch], last.line)
          /\ last.line \in batches[last.batch].allocations
          /\ last.line \notin last.pre[last.batch].allocations
             => available_quantity(batches[last.batch])
                  = available_quantity(last.pre[last.batch]) - last.line.qty
    /\ (C4_Pre(prev) /\ last.op = "Batch.allocate")
       => /\ available_quantity(batches[last.batch])
               = available_quantity(last.pre[last.batch])
          /\ last.line \notin prev.pre[prev.batch].allocations
             => available_quantity(batches[last.batch])
                  = available_quantity(prev.pre[prev.batch]) - last.line.qty

\* C4 witness: a line the batch did not hold was allocated, and allocated
\* again while the batch still had room for it.
C4_Witness ==
    /\ C4_Pre(prev)
    /\ C4_Pre(last)
    /\ last.line \notin prev.pre[prev.batch].allocations
    /\ last.line \in batches[last.batch].allocations

\* two service calls in a row with the same line and the same list, the
\* first one successful for a line that no batch held
C5_Twice ==
    /\ last.op = "allocate"
    /\ prev.op = "allocate"
    /\ prev.raised = ""
    /\ Holders(prev.pre, last.line) = {}

\* C5 as stated: after the second call the line is held by at most one
\* batch and the available quantities have dropped by the line's qty in all.
C5_Original ==
    C5_Twice
    => /\ Cardinality(Holders(batches, last.line)) <= 1
       /\ TotalAvailable(batches, Refs)
            = TotalAvailable(prev.pre, Refs) - last.line.qty

\* C5 amended: the line is allocated once in all when the batch chosen by
\* the first call still has an available quantity of at least the line's qty
\* after it: the second call returns the same reference, one batch holds the
\* line and the available quantities have dropped by the line's qty in all.
C5_OnceWhenRoomLeft ==
    (C5_Twice /\ available_quantity(last.pre[prev.ret]) >= last.line.qty)
    => /\ last.ret = prev.ret
       /\ Holders(batches, last.line) = {prev.ret}
       /\ TotalAvailable(batches, Refs)
            = TotalAvailable(prev.pre, Refs) - last.line.qty

\* C5 witness: the case of the amended claim, with a second batch in the
\* list that could have taken the line as well.
C5_Witness ==
    /\ C5_Twice
    /\ available_quantity(last.pre[prev.ret]) >= last.line.qty
    /\ \E r \in InList(last.list) \ {prev.ret} :
          can_allocate(last.pre[r], last.line)

\* Batch.deallocate right after Batch.allocate, same batch and same line
C6_RoundTrip == prev.op = "Batch.allocate" /\ last.op = "Batch.deallocate"

\* C6 as stated: Batch.allocate followed by Batch.deallocate with the same
\* line restores the available quantity the batch had before the allocate.
C6_Original ==
    C6_RoundTrip
    => available_quantity(batches[last.batch])
         = available_quantity(prev.pre[prev.batch])

\* C6 amended: the round trip restores the available quantity (and the
\* allocations) when the batch did not hold the line before the allocate.
C6_RoundTripRestores ==
    (C6_RoundTrip /\ last.line \notin prev.pre[prev.batch].allocations)
    => /\ available_quantity(batches[last.batch])
            = available_quantity(prev.pre[prev.batch])
       /\ batches = prev.pre

\* C6 witness: the allocate added the line to a batch holding another line,
\* and the deallocate removed it again.
C6_Witness ==
    /\ C6_RoundTrip
    /\ last.line \notin prev.pre[prev.batch].allocations
    /\ last.line \in last.pre[last.batch].allocations
    /\ prev.pre[prev.batch].allocations # {}

\* C7 as stated: a successful service call changes the allocations of the
\* batch it returns and of no other batch.
C7_Original ==
    ServiceOk
    => /\ batches[last.ret].allocations # last.pre[last.ret].allocations
       /\ \A r \in Refs \ {last.ret} :
            batches[r].allocations = last.pre[r].allocations

\* C7 amended: a successful service call changes the allocations of no
\* batch but the one it returns; that batch gains the line when it did not
\* hold it, and when it already held it no batch changes.
C7_AtMostTheSelectedBatch ==
    ServiceOk
    => /\ \A r \in Refs \ {last.ret} :
            batches[r].allocations = last.pre[r].allocations
       /\ last.line \notin last.pre[last.ret].allocations
          => /\ batches[last.ret].allocations
                  = last.pre[last.ret].allocations \cup {last.line}
             /\ batches[last.ret].allocations
                  # last.pre[last.ret].allocations
       /\ last.line \in last.pre[last.ret].allocations
          => batches = last.pre

\* C7 witness: the returned batch gained the line.
C7_Witness ==
    /\ ServiceOk
    /\ Len(last.list) = 2
    /\ last.line \notin last.pre[last.ret].allocations
    /\ last.line \in batches[last.ret].allocations

\* C8: the OutOfStock error of a failed service call carries the sku of the
\* line.
C8_Original ==
    ServiceFailed
    => \E k \in DOMAIN last.message : last.message[k] = last.line.sku

\* C9: after a successful service call every batch other than the one
\* returned has the allocations and the available quantity it had before.
C9_OthersUntouched ==
    ServiceOk
    => \A r \in Refs \ {last.ret} :
          /\ batches[r].allocations = last.pre[r].allocations
          /\ available_quantity(batches[r]) = available_quantity(last.pre[r])

\* C9 witness: the scan met a batch of the right sku that was short of the
\* quantity before it reached the batch it returned, which gained the line.
C9_Witness ==
    /\ ServiceOk
    /\ batches[last.ret] # last.pre[last.ret]
    /\ \E r \in InList(last.list) \ {last.ret} :
          /\ RanksBefore(last.pre[r], last.pre[last.ret])
          /\ last.pre[r].sku = last.line.sku
          /\ last.pre[r].allocations # {}
          /\ ~ can_allocate(last.pre[r], last.line)

\* C10: a service call that fails with OutOfStock changes no batch.
C10_FailureChangesNothing ==
    ServiceFailed
    => \A r \in Refs :
          /\ batches[r].allocations = last.pre[r].allocations
          /\ available_quantity(batches[r]) = available_quantity(last.pre[r])

\* C10 witness: OutOfStock on a list holding a fully allocated batch of the
\* right sku.
C10_Witness ==
    /\ ServiceFailed
    /\ \E r \in InList(last.list) :
          /\ last.pre[r].sku = last.line.sku
          /\ last.pre[r].allocations # {}
          /\ available_quantity(last.pre[r]) = 0

\* the place of a batch in a list of distinct batches
IndexIn(list, r) == CHOOSE k \in DOMAIN list : list[k] = r

\* C11: after a successful service call the batch whose reference is
\* returned holds the line.
C11_ReturnedBatchHoldsLine ==
    ServiceOk
    => /\ last.ret \in InList(last.list)
       /\ last.line \in batches[last.ret].allocations

\* C11 witness: a successful call that returned the batch listed second,
\* which did not hold the line before and holds it now.
C11_Witness ==
    /\ ServiceOk
    /\ Len(last.list) = 2
    /\ last.ret = last.list[2]
    /\ last.line \notin last.pre[last.ret].allocations
    /\ last.line \in batches[last.ret].allocations

\* C12: Batch.allocate of a line the batch cannot allocate, and
\* Batch.deallocate of a line the batch does not hold, leave the allocations
\* unchanged and raise nothing.
C12_EntityCallsNeverFail ==
    /\ (/\ last.op = "Batch.allocate"
        /\ \/ last.pre[last.batch].sku # last.line.sku
           \/ available_quantity(last.pre[last.batch]) < last.line.qty)
       => /\ batches[last.batch].allocations
               = last.pre[last.batch].allocations
          /\ last.raised = ""
    /\ (/\ last.op = "Batch.deallocate"
        /\ last.line \notin last.pre[last.batch].allocations)
       => /\ batches[last.batch].allocations
               = last.pre[last.batch].allocations
          /\ last.raised = ""

\* C12 witness: Batch.deallocate of a line of the right sku that the batch
\* does not hold, on a batch holding another line.
C12_Witness ==
    /\ last.op = "Batch.deallocate"
    /\ last.line \notin last.pre[last.batch].allocations
    /\ last.line.sku = last.pre[last.batch].sku
    /\ last.pre[last.batch].allocations # {}
    /\ batches = last.pre

\* C13: can_allocate returns true exactly when the skus are equal and the
\* available quantity is at least the line's qty, and it changes no state.
C13_CanAllocateIff ==
    last.op = "Batch.can_allocate"
    => /\ last.ret \in {"True", "False"}
       /\ last.ret = "True"
          <=> /\ last.pre[last.batch].sku = last.line.sku
              /\ available_quantity(last.pre[last.batch]) >= last.line.qty
       /\ batches = last.pre

\* C13 witness: can_allocate returned false for a line of another sku on a
\* batch with enough available quantity.
C13_Witness ==
    /\ last.op = "Batch.can_allocate"
    /\ last.ret = "False"
    /\ last.pre[last.batch].sku # last.line.sku
    /\ last.pre[last.batch].allocations # {}
    /\ available_quantity(last.pre[last.batch]) >= last.line.qty

\* C14: among the batches that can allocate the line and tie with the
\* returned batch in rank, the returned batch comes first in the input list.
C14_TieGoesToFirstListed ==
    ServiceOk
    => \A r \in InList(last.list) \ {last.ret} :
          (/\ can_allocate(last.pre[r], last.line)
           /\ ~ RanksBefore(last.pre[last.ret], last.pre[r])
           /\ ~ RanksBefore(last.pre[r], last.pre[last.ret]))
          => IndexIn(last.list, last.ret) < IndexIn(last.list, r)

\* C14 witness: two batches in transit with the same eta could both take
\* the line, and the one listed first was returned.
C14_Witness ==
    /\ ServiceOk
    /\ Len(last.list) = 2
    /\ last.pre[last.list[1]].eta # None
    /\ last.pre[last.list[1]].eta = last.pre[last.list[2]].eta
    /\ can_allocate(last.pre[last.list[1]], last.line)
    /\ can_allocate(last.pre[last.list[2]], last.line)
    /\ last.ret = last.list[1]

\* Batch.deallocate of a line that the batch held
C15_Released(call) ==
    /\ call.op = "Batch.deallocate"
    /\ call.line \in call.pre[call.batch].allocations

\* C15: right after Batch.deallocate of a line the batch held, the batch
\* can allocate that line, and a service call that follows with that line
\* and a list holding the batch does not fail.
C15_ReleasedLineFitsAgain ==
    /\ C15_Released(last)
       => /\ batches[last.batch].sku = last.line.sku
          /\ available_quantity(batches[last.batch]) >= last.line.qty
          /\ can_allocate(batches[last.batch], last.line)
    /\ (C15_Released(prev) /\ last.op = "allocate")
       => last.raised = "" /\ last.ret \in InList(last.list)

\* C15 witness: the line was released from a batch that was full, and the
\* service call that followed, on a list of two batches, succeeded.
C15_Witness ==
    /\ C15_Released(prev)
    /\ available_quantity(prev.pre[prev.batch]) = 0
    /\ last.op = "allocate"
    /\ Len(last.list) = 2
    /\ last.raised = ""

\* a service call repeated after a successful one that left the batch it
\* returned with room for the line
C16_Repeated ==
    /\ last.op = "allocate"
    /\ prev.op = "allocate"
    /\ prev.raised = ""
    /\ available_quantity(last.pre[prev.ret]) >= last.line.qty

\* C16: such a repeated call returns the same reference again and changes
\* no batch's allocations.
C16_RepeatReturnsSame ==
    C16_Repeated
    => /\ last.raised = ""
       /\ last.ret = prev.ret
       /\ \A r \in Refs : batches[r].allocations = last.pre[r].allocations

\* C16 witness: the repeated call, where the first call added the line to
\* the returned batch while the other batch of the list already held it.
C16_Witness ==
    /\ C16_Repeated
    /\ Len(last.list) = 2
    /\ last.line \notin prev.pre[prev.ret].allocations
    /\ \E r \in InList(last.list) \ {prev.ret} :
          last.line \in prev.pre[r].allocations

====
